---- MODULE Spec2Model ----
(***************************************************************************)
(* CharBuffer (src/src/buffer.rs): a buffer of two equal chunks over a     *)
(* `Read` source.  take_byte reads forward and loads a chunk when the      *)
(* position reaches a chunk boundary, take_char is take_byte restricted    *)
(* to ASCII, take_back moves the read cursor backwards by at most one      *)
(* chunk.                                                                  *)
(***************************************************************************)
EXTENDS Integers, Sequences, FiniteSets, TLC

\* ------------------------------------------------------------------ bounds
\* Largest chunk size tried (chunk size 0 is tried too: construction panics).
MaxChunk == 2
\* Longest source.
MaxLen == 5
\* take_back is called with amounts 0 .. chunk size + MaxOver.
MaxOver == 1

\* Byte values of the sources: two ASCII bytes ('a', 'b') and one byte >= 0x80.
Bytes == {97, 98, 195}
\* Errors a source read can fail with (std::io::ErrorKind of the source).
IoErrors == {"Interrupted", "Other"}

Sources == UNION {[1..n -> Bytes] : n \in 0..MaxLen}

Min(a, b) == IF a < b THEN a ELSE b

VARIABLES
    source,     \* the bytes of the source R, fixed at construction
    offset,     \* number of bytes the source has handed out (its read offset)
    alive,      \* TRUE iff CharBuffer::new returned a buffer (FALSE: it panicked)
    size,       \* chunks.size (the chunk_size given to new, also when it panicked)
    left,       \* chunks.left
    right,      \* chunks.right
    consumed,   \* consumed
    loaded,     \* loaded
    withdrawn,  \* withdrawn
    last,       \* the most recent call: operation, argument, result, source
                \* reads, byte delivered, steps taken back
    run,        \* the latest uninterrupted run of successful take_byte calls
    mon,        \* the replay a take_back has started, for the re-read laws
    onlyReads   \* TRUE iff every call so far was take_byte

vars == <<source, offset, alive, size, left, right, consumed, loaded, withdrawn,
          last, run, mon, onlyReads>>

\* ------------------------------------------------------- io::Result values
Ok(v) == [kind |-> "Ok", val |-> v]
Err(k) == [kind |-> k, val |-> 0]

\* ------------------------------------------------------------- the buffer
\* capacity that counts one chunk only.
capacity_one_chunk == size

\* capacity(): chunks.size * 2
capacity == size * 2

\* position(), as a function of the consumed count it is computed from
position(c) == c % capacity

\* What one read on the source, limited to `limit` bytes, can return: an I/O
\* error, 0 bytes when the source is exhausted, else any count from 1 up to
\* the limit and the bytes left (Read::read may return fewer than asked).
SourceRead(limit) ==
    LET rest == Len(source) - offset
    IN [err : IoErrors, n : {0}]
       \cup [err : {""}, n : IF rest = 0 THEN {0} ELSE 1..Min(limit, rest)]

\* The chunk after a read stored n bytes at its start.
Filled(chunk, n) ==
    [i \in 1..size |-> IF i <= n THEN source[offset + i] ELSE chunk[i]]

\* load_chunk that fills the half the position does not lie in.
load_chunk_other_half ==
    LET pos == position(consumed)
    IN { [err |-> r.err, n |-> r.n,
          left |-> IF pos < size THEN left ELSE Filled(left, r.n),
          right |-> IF pos < size THEN Filled(right, r.n) ELSE right,
          offset |-> offset + r.n] : r \in SourceRead(size) }

\* load_chunk(): one read of at most chunks.size bytes into the half the
\* position lies in.  The set of its outcomes: the io::Result (err, n) and
\* the chunks and the source offset afterwards.
load_chunk ==
    LET pos == position(consumed)
    IN { [err |-> r.err, n |-> r.n,
          left |-> IF pos < size THEN Filled(left, r.n) ELSE left,
          right |-> IF pos < size THEN right ELSE Filled(right, r.n),
          offset |-> offset + r.n] : r \in SourceRead(size) }

\* read_position that picks the half by the slot only and never the right one.
read_position_left(pos, lft, rgt) ==
    IF pos >= capacity THEN Err("NotFound")
    ELSE Ok(lft[(pos % size) + 1])

\* read_position(position), on the chunks lft and rgt
read_position(pos, lft, rgt) ==
    IF pos >= capacity THEN Err("NotFound")
    ELSE IF position(consumed) < size THEN Ok(lft[pos + 1])
    ELSE Ok(rgt[(pos % size) + 1])

\* take_byte from line 123 on that moves the cursor on before it finds the
\* end of the input.
take_byte_rest_advances_at_eof(l, reads) ==
    LET loaded1 == loaded + l.n
        withdrawn1 == IF withdrawn > 0 THEN withdrawn - 1 ELSE withdrawn
        byte == read_position(position(consumed), l.left, l.right)
        st == [ret |-> Err("UnexpectedEof"),
               consumed |-> consumed + 1, loaded |-> loaded1,
               withdrawn |-> withdrawn,
               left |-> l.left, right |-> l.right, offset |-> l.offset,
               reads |-> reads, rdErr |-> "", raw |-> << >>]
    IN IF consumed >= loaded1
       THEN st
       ELSE IF byte.kind # "Ok"
       THEN [st EXCEPT !.ret = byte, !.withdrawn = withdrawn1,
                       !.consumed = consumed]
       ELSE [st EXCEPT !.ret = byte, !.withdrawn = withdrawn1,
                       !.raw = <<byte.val>>]

\* take_byte() from line 123 on, after the load (if any) gave l.
take_byte_rest(l, reads) ==
    LET loaded1 == loaded + l.n
        withdrawn1 == IF withdrawn > 0 THEN withdrawn - 1 ELSE withdrawn
        byte == read_position(position(consumed), l.left, l.right)
        st == [ret |-> Err("UnexpectedEof"),
               consumed |-> consumed, loaded |-> loaded1, withdrawn |-> withdrawn,
               left |-> l.left, right |-> l.right, offset |-> l.offset,
               reads |-> reads, rdErr |-> "", raw |-> << >>]
    IN IF consumed >= loaded1
       THEN st
       ELSE IF byte.kind # "Ok"
       THEN [st EXCEPT !.ret = byte, !.withdrawn = withdrawn1]
       ELSE [st EXCEPT !.ret = byte, !.withdrawn = withdrawn1,
                       !.consumed = consumed + 1, !.raw = <<byte.val>>]

\* take_byte that loads at every chunk boundary, withdrawn bytes or not.
take_byte_reloads ==
    LET pos == position(consumed)
        same == [err |-> "", n |-> 0, left |-> left, right |-> right,
                 offset |-> offset]
    IN IF pos = 0 \/ pos = size
       THEN { IF l.err # ""
              THEN [ret |-> Err(l.err), consumed |-> consumed, loaded |-> loaded,
                    withdrawn |-> withdrawn, left |-> left, right |-> right,
                    offset |-> offset, reads |-> 1, rdErr |-> l.err,
                    raw |-> << >>]
              ELSE take_byte_rest(l, 1) : l \in load_chunk }
       ELSE { take_byte_rest(same, 0) }

\* take_byte that reports a failed source read as the end of the input.
take_byte_masks_error ==
    LET pos == position(consumed)
        same == [err |-> "", n |-> 0, left |-> left, right |-> right,
                 offset |-> offset]
    IN IF (withdrawn = 0) /\ (pos = 0 \/ pos = size)
       THEN { IF l.err # ""
              THEN [ret |-> Err("UnexpectedEof"), consumed |-> consumed,
                    loaded |-> loaded, withdrawn |-> withdrawn, left |-> left,
                    right |-> right, offset |-> offset, reads |-> 1,
                    rdErr |-> l.err, raw |-> << >>]
              ELSE take_byte_rest(l, 1) : l \in load_chunk }
       ELSE { take_byte_rest(same, 0) }

\* take_byte(): the set of its outcomes, each the returned io::Result, the
\* fields afterwards, the number of source reads issued, the error the
\* source raised (if any) and the byte delivered (if any).
take_byte ==
    LET pos == position(consumed)
        same == [err |-> "", n |-> 0, left |-> left, right |-> right,
                 offset |-> offset]
    IN IF (withdrawn = 0) /\ (pos = 0 \/ pos = size)
       THEN { IF l.err # ""
              THEN [ret |-> Err(l.err), consumed |-> consumed, loaded |-> loaded,
                    withdrawn |-> withdrawn, left |-> left, right |-> right,
                    offset |-> offset, reads |-> 1, rdErr |-> l.err,
                    raw |-> << >>]
              ELSE take_byte_rest(l, 1) : l \in load_chunk }
       ELSE { take_byte_rest(same, 0) }

\* u8::is_ascii
is_ascii(byte) == byte < 128

\* take_char that gives a byte it rejects back to the buffer.
take_char_unconsumes ==
    { IF o.ret.kind = "Ok" /\ ~is_ascii(o.ret.val)
      THEN [o EXCEPT !.ret = Err("InvalidInput"), !.consumed = o.consumed - 1,
                     !.withdrawn = o.withdrawn + 1]
      ELSE o : o \in take_byte }

\* take_char(): take_byte()?, then the ASCII test on the byte.
take_char ==
    { IF o.ret.kind = "Ok" /\ ~is_ascii(o.ret.val)
      THEN [o EXCEPT !.ret = Err("InvalidInput")]
      ELSE o : o \in take_byte }

\* take_back loop that forgets to count the withdrawn bytes.
RECURSIVE take_back_loop_uncounted(_, _, _)
take_back_loop_uncounted(c, w, n) ==
    IF n = 0 THEN [ok |-> TRUE, consumed |-> c, withdrawn |-> w]
    ELSE IF (w + 1) > size THEN [ok |-> FALSE, consumed |-> c, withdrawn |-> w]
    ELSE take_back_loop_uncounted(c - 1, w, n - 1)

\* take_back loop without the bound on the withdrawn bytes.
RECURSIVE take_back_loop_unbounded(_, _, _)
take_back_loop_unbounded(c, w, n) ==
    IF n = 0 THEN [ok |-> TRUE, consumed |-> c, withdrawn |-> w]
    ELSE take_back_loop_unbounded(c - 1, w + 1, n - 1)

\* take_back loop whose bound is off by one.
RECURSIVE take_back_loop_off_by_one(_, _, _)
take_back_loop_off_by_one(c, w, n) ==
    IF n = 0 THEN [ok |-> TRUE, consumed |-> c, withdrawn |-> w]
    ELSE IF w > size THEN [ok |-> FALSE, consumed |-> c, withdrawn |-> w]
    ELSE take_back_loop_off_by_one(c - 1, w + 1, n - 1)

\* The loop of take_back: n steps are left, c and w are consumed and
\* withdrawn so far.  A step fails when the chunk has no room for it and
\* leaves the earlier steps in effect.
RECURSIVE take_back_loop(_, _, _)
take_back_loop(c, w, n) ==
    IF n = 0 THEN [ok |-> TRUE, consumed |-> c, withdrawn |-> w]
    ELSE IF (w + 1) > size THEN [ok |-> FALSE, consumed |-> c, withdrawn |-> w]
    ELSE take_back_loop(c - 1, w + 1, n - 1)

\* The outcome of a call that fails with PermissionDenied and changes nothing.
Denied ==
    [ret |-> Err("PermissionDenied"),
     consumed |-> consumed, loaded |-> loaded, withdrawn |-> withdrawn,
     left |-> left, right |-> right, offset |-> offset,
     reads |-> 0, rdErr |-> "", raw |-> << >>]

\* The outcome of take_back once both of its checks have passed.
Rewound(r) ==
    [Denied EXCEPT !.consumed = r.consumed, !.withdrawn = r.withdrawn,
                   !.ret = IF r.ok THEN Ok(position(r.consumed))
                           ELSE Err("PermissionDenied")]

\* take_back that seeks the source back and drops the bytes loaded ahead.
take_back_seeks(amount) ==
    LET r == take_back_loop(consumed, withdrawn, amount)
    IN IF amount > consumed THEN Denied
       ELSE IF amount > size THEN Denied
       ELSE [Rewound(r) EXCEPT !.loaded = r.consumed, !.offset = r.consumed]

\* take_back without the check of the amount against the chunk size.
take_back_no_size_check(amount) ==
    IF amount > consumed THEN Denied
    ELSE Rewound(take_back_loop(consumed, withdrawn, amount))

\* take_back without the check of the amount against the consumed count.
take_back_no_consumed_check(amount) ==
    IF amount > size THEN Denied
    ELSE Rewound(take_back_loop(consumed, withdrawn, amount))

\* take_back that checks the whole amount against the room left before it
\* moves anything.
take_back_all_or_nothing(amount) ==
    IF amount > consumed THEN Denied
    ELSE IF amount > size THEN Denied
    ELSE IF withdrawn + amount > size THEN Denied
    ELSE Rewound(take_back_loop(consumed, withdrawn, amount))

\* take_back(amount): its outcome.  It has no access to the source.
take_back(amount) ==
    IF amount > consumed THEN Denied
    ELSE IF amount > size THEN Denied
    ELSE Rewound(take_back_loop(consumed, withdrawn, amount))

\* ------------------------------------------------ the record of the calls
NoCall == [op |-> "new", arg |-> 0, ret |-> Ok(0), reads |-> 0, rdErr |-> "",
           raw |-> << >>, back |-> 0]
NoReplay == [kind |-> "none", stage |-> "done", k |-> 0, pos |-> 0,
             expect |-> << >>]

LastOf(s, k) == SubSeq(s, Len(s) - k + 1, Len(s))

\* The run of successful take_byte calls after this call: the position
\* before each and the byte it returned, the last chunks.size of them.
RunAfter(op, o) ==
    IF op = "take_byte" /\ o.ret.kind = "Ok"
    THEN LET r == Append(run, [pos |-> position(consumed), byte |-> o.ret.val])
         IN IF Len(r) > size THEN Tail(r) ELSE r
    ELSE << >>

\* The replay after this call.  A take_back(k) starts one: after k <= Len(run)
\* reads it expects their bytes again, after an UnexpectedEof the last k bytes
\* of the source and another UnexpectedEof, after an InvalidInput of
\* take_char the byte at fault.  Each take_byte that follows takes one
\* expected byte off; any other call ends the replay.
ReplayAfter(op, arg, o) ==
    IF op = "take_back"
    THEN IF last.op = "take_byte" /\ last.ret.kind = "UnexpectedEof"
            /\ arg <= Min(size, consumed)
         THEN [kind |-> "eof", stage |-> IF arg = 0 THEN "tail" ELSE "replay",
               k |-> arg, pos |-> position(consumed),
               expect |-> IF arg <= Len(source) THEN LastOf(source, arg)
                          ELSE << >>]
         ELSE IF last.op = "take_char" /\ last.ret.kind = "InvalidInput" /\ arg = 1
         THEN [kind |-> "nonascii", stage |-> "replay", k |-> 1,
               pos |-> position(consumed), expect |-> last.raw]
         ELSE IF arg <= Len(run)
         THEN [kind |-> "roundtrip", stage |-> IF arg = 0 THEN "done" ELSE "replay",
               k |-> arg,
               pos |-> IF arg = 0 THEN position(consumed)
                       ELSE run[Len(run) - arg + 1].pos,
               expect |-> [i \in 1..arg |-> run[Len(run) - arg + i].byte]]
         ELSE NoReplay
    ELSE IF op = "take_byte" /\ mon.stage = "replay"
    THEN [mon EXCEPT !.expect = Tail(mon.expect),
                     !.stage = IF Len(mon.expect) > 1 THEN "replay"
                               ELSE IF mon.kind = "eof" THEN "tail" ELSE "done"]
    ELSE IF op = "take_byte" /\ mon.stage = "tail"
    THEN [mon EXCEPT !.stage = IF o.rdErr # "" THEN "tail" ELSE "done"]
    ELSE NoReplay

\* One call of operation op with argument arg and outcome o.
Call(op, arg, o) ==
    /\ consumed' = o.consumed
    /\ loaded' = o.loaded
    /\ withdrawn' = o.withdrawn
    /\ left' = o.left
    /\ right' = o.right
    /\ offset' = o.offset
    /\ last' = [op |-> op, arg |-> arg, ret |-> o.ret, reads |-> o.reads,
                rdErr |-> o.rdErr, raw |-> o.raw,
                back |-> IF op = "take_back" THEN consumed - o.consumed ELSE 0]
    /\ run' = RunAfter(op, o)
    /\ mon' = ReplayAfter(op, arg, o)
    /\ onlyReads' = (onlyReads /\ op = "take_byte")
    /\ UNCHANGED <<source, alive, size>>

\* The outcome of a query: the value v, every field as it was.
Queried(v) == [Denied EXCEPT !.ret = Ok(v)]

\* ---------------------------------------------------------- specification
\* new that takes a chunk size of 0.
new_accepts_zero(src, chunk_size) ==
    /\ source = src
    /\ offset = 0
    /\ alive = ~(chunk_size < 0)
    /\ size = chunk_size
    /\ left = [i \in 1..chunk_size |-> 0]
    /\ right = [i \in 1..chunk_size |-> 0]
    /\ consumed = 0
    /\ loaded = 0
    /\ withdrawn = 0

\* new that loads the first chunk right away.
new_loads_first_chunk(src, chunk_size) ==
    LET n == Min(chunk_size, Len(src))
    IN /\ source = src
       /\ offset = n
       /\ alive = ~(chunk_size < 1)
       /\ size = chunk_size
       /\ left = [i \in 1..chunk_size |-> IF i <= n THEN src[i] ELSE 0]
       /\ right = [i \in 1..chunk_size |-> 0]
       /\ consumed = 0
       /\ loaded = n
       /\ withdrawn = 0

\* CharBuffer::new(source, chunk_size): panics for chunk_size < 1, else two
\* zero-filled chunks and all counts 0.
new(src, chunk_size) ==
    /\ source = src
    /\ offset = 0
    /\ alive = ~(chunk_size < 1)
    /\ size = chunk_size
    /\ left = [i \in 1..chunk_size |-> 0]
    /\ right = [i \in 1..chunk_size |-> 0]
    /\ consumed = 0
    /\ loaded = 0
    /\ withdrawn = 0

Init ==
    /\ \E src \in Sources, chunk_size \in 0..MaxChunk : new(src, chunk_size)
    /\ last = NoCall
    /\ run = << >>
    /\ mon = NoReplay
    /\ onlyReads = TRUE

TakeByte == alive /\ \E o \in take_byte : Call("take_byte", 0, o)

TakeChar == alive /\ \E o \in take_char : Call("take_char", 0, o)

TakeBack ==
    alive /\ \E amount \in 0..(size + MaxOver) :
                Call("take_back", amount, take_back(amount))

\* capacity(): a query on &self.
Capacity == alive /\ Call("capacity", 0, Queried(capacity))

Next == TakeByte \/ TakeChar \/ TakeBack \/ Capacity

Spec == Init /\ [][Next]_vars

\* ------------------------------------------------------------------ claims
\* The call of a step is described by last', the state it was made in by the
\* unprimed variables.
Dec(w) == IF w > 0 THEN w - 1 ELSE 0

\* The position before the last k calls of the run of take_byte calls.
RunStart(k) == IF k = 0 THEN position(consumed) ELSE run[Len(run) - k + 1].pos

\* C1: when take_byte is the only operation called, each byte it returns is
\* the source's byte at the number of bytes returned before it, and it
\* returns UnexpectedEof only once as many bytes have been returned as the
\* source holds, never earlier, whatever counts the source's reads return.
C1_ReadsWholeSource ==
    (onlyReads /\ last.op = "take_byte") =>
        /\ last.ret.kind = "Ok" =>
              /\ consumed <= Len(source)
              /\ last.ret.val = source[consumed]
        /\ last.ret.kind = "UnexpectedEof" => consumed = Len(source)

\* C2: in any interleaving of the calls, a take_byte that succeeds (called
\* directly or by take_char) with consumed = c delivers the source's byte at
\* offset c, adds one to consumed and takes one off withdrawn unless it is 0.
C2_TakeByteContract ==
    [][(last'.op \in {"take_byte", "take_char"} /\ last'.raw # << >>) =>
          /\ consumed < Len(source)
          /\ last'.raw = <<source[consumed + 1]>>
          /\ last'.op = "take_byte" => last'.ret = Ok(source[consumed + 1])
          /\ consumed' = consumed + 1
          /\ withdrawn' = Dec(withdrawn)]_vars

\* C2 happens: a take_byte succeeded in the right chunk, after a take_back,
\* with withdrawn bytes still ahead of it.
C2_Witness ==
    /\ last.op = "take_byte" /\ last.ret.kind = "Ok"
    /\ ~onlyReads /\ withdrawn > 0 /\ consumed > size

\* C3: after k <= chunks.size take_byte calls in a row have succeeded,
\* take_back(k) succeeds and returns the position before those k calls, and
\* each of the next k take_byte calls succeeds with the byte the
\* corresponding one of those k calls returned.
C3_RoundTrip ==
    [][/\ (last'.op = "take_back" /\ last'.arg <= Len(run)) =>
              last'.ret = Ok(RunStart(last'.arg))
       /\ (mon.kind = "roundtrip" /\ mon.stage = "replay"
              /\ last'.op = "take_byte") =>
              last'.ret = Ok(Head(mon.expect))]_vars

\* C3 happens: a whole chunk of at least two bytes, read across a chunk
\* boundary, has been taken back and read again.
C3_Witness ==
    /\ mon.kind = "roundtrip" /\ mon.stage = "done"
    /\ mon.k = size /\ size >= 2
    /\ last.op = "take_byte" /\ last.ret.kind = "Ok"
    /\ position(consumed) \notin {0, size}

\* C4: take_back, failed or not, issues no source read and leaves loaded,
\* both chunks and the source's offset as they were.
C4_TakeBackFrame ==
    [][last'.op = "take_back" =>
          /\ last'.reads = 0
          /\ UNCHANGED <<loaded, left, right, offset, source, size>>]_vars

\* C4 happens: a take_back has moved the cursor back while loaded bytes lay
\* ahead of it.
C4_Witness ==
    /\ last.op = "take_back" /\ last.ret.kind = "Ok" /\ last.arg >= 1
    /\ loaded > consumed + withdrawn

\* C5: take_back of more than chunks.size fails with PermissionDenied and
\* leaves consumed, withdrawn and the position as they were, however many
\* bytes have been consumed.
C5_TooManyForChunk ==
    [][(last'.op = "take_back" /\ last'.arg > size) =>
          /\ last'.ret = Err("PermissionDenied")
          /\ UNCHANGED <<consumed, withdrawn>>
          /\ position(consumed') = position(consumed)]_vars

\* C5 happens: a take_back of more than a chunk was refused although that
\* many bytes had been consumed.
C5_Witness ==
    /\ last.op = "take_back" /\ last.arg > size /\ consumed >= last.arg
    /\ last.ret.kind = "PermissionDenied"

\* C6: take_back of more than consumed, the new buffer's 0 included, fails
\* with PermissionDenied and leaves consumed, withdrawn and the position as
\* they were.
C6_TooManyForConsumed ==
    [][(last'.op = "take_back" /\ last'.arg > consumed) =>
          /\ last'.ret = Err("PermissionDenied")
          /\ UNCHANGED <<consumed, withdrawn>>
          /\ position(consumed') = position(consumed)]_vars

\* C6 happens: a take_back that a chunk has room for was refused because
\* fewer bytes had been consumed, some of them already.
C6_Witness ==
    /\ last.op = "take_back" /\ last.arg > consumed /\ last.arg <= size
    /\ consumed >= 1 /\ last.ret.kind = "PermissionDenied"

\* C7: take_back(amount) returns Ok exactly when amount <= consumed and
\* withdrawn + amount <= chunks.size, and PermissionDenied otherwise; so
\* with a whole chunk withdrawn a take_back(1) is refused.
C7_RewindBudget ==
    [][last'.op = "take_back" =>
          /\ last'.ret.kind = "Ok" <=>
                (last'.arg <= consumed /\ withdrawn + last'.arg <= size)
          /\ last'.ret.kind \in {"Ok", "PermissionDenied"}
          /\ (withdrawn = size /\ last'.arg = 1) =>
                last'.ret = Err("PermissionDenied")]_vars

\* C7 happens: take_back calls that each succeeded have withdrawn a whole
\* chunk between them, and the take_back(1) after them was refused although
\* consumed bytes were left.
C7_Witness ==
    /\ last.op = "take_back" /\ last.arg = 1
    /\ last.ret.kind = "PermissionDenied"
    /\ withdrawn = size /\ consumed >= 1 /\ size >= 2

\* C8: after take_byte has returned UnexpectedEof with consumed = n,
\* take_back(k) succeeds for every k <= min(chunks.size, n), the next k
\* take_byte calls return the last k bytes of the source in order, and the
\* take_byte after them (its source read not failing) returns UnexpectedEof.
C8_UsableAfterEof ==
    [][/\ (last.op = "take_byte" /\ last.ret.kind = "UnexpectedEof"
              /\ last'.op = "take_back" /\ last'.arg <= Min(size, consumed)) =>
              last'.ret.kind = "Ok"
       /\ (mon.kind = "eof" /\ mon.stage = "replay" /\ last'.op = "take_byte") =>
              last'.ret = Ok(Head(mon.expect))
       /\ (mon.kind = "eof" /\ mon.stage = "tail" /\ last'.op = "take_byte"
              /\ last'.rdErr = "") =>
              last'.ret.kind = "UnexpectedEof"]_vars

\* C9: a take_char whose take_byte delivers a byte >= 0x80 fails with
\* InvalidInput and leaves the byte consumed (consumed one more, withdrawn
\* one less unless 0); a take_back(1) after it succeeds and the take_byte
\* after that returns the byte.
C9_NonAsciiStaysConsumed ==
    [][/\ (last'.op = "take_char" /\ last'.raw # << >> /\ last'.raw[1] >= 128) =>
              /\ last'.ret = Err("InvalidInput")
              /\ consumed' = consumed + 1
              /\ withdrawn' = Dec(withdrawn)
       /\ (last.op = "take_char" /\ last.ret.kind = "InvalidInput"
              /\ last'.op = "take_back" /\ last'.arg = 1) =>
              last'.ret.kind = "Ok"
       /\ (mon.kind = "nonascii" /\ mon.stage = "replay"
              /\ last'.op = "take_byte") =>
              /\ last'.ret = Ok(Head(mon.expect))
              /\ last'.ret.val = source[consumed + 1]
              /\ last'.ret.val >= 128]_vars

\* C9 happens: take_char refused a byte >= 0x80, take_back(1) and take_byte
\* followed and take_byte returned the byte.
C9_Witness ==
    /\ mon.kind = "nonascii" /\ mon.stage = "done"
    /\ last.op = "take_byte" /\ last.ret.kind = "Ok" /\ last.ret.val >= 128

\* C10: when the source's read fails in a refill, take_byte returns the
\* source's error, has issued that one read only and leaves consumed, loaded
\* and withdrawn as they were; a take_byte after it issues the read again.
C10_ReadErrorPropagates ==
    [][/\ (last'.op = "take_byte" /\ last'.rdErr # "") =>
              /\ last'.ret = Err(last'.rdErr)
              /\ last'.reads = 1
              /\ UNCHANGED <<consumed, loaded, withdrawn>>
       /\ (last.op = "take_byte" /\ last.rdErr # "" /\ last'.op = "take_byte") =>
              last'.reads = 1]_vars

\* C10 happens: a take_byte failed with the error of the source's read, in a
\* refill in the middle of the stream with source bytes still to come.
C10_Witness ==
    /\ last.op = "take_byte" /\ last.rdErr # "" /\ last.ret.kind = last.rdErr
    /\ consumed >= size /\ loaded = consumed /\ offset < Len(source)

\* The fields of the buffer and the source's offset.
fields == <<consumed, loaded, withdrawn, left, right, offset, size>>

\* C11: new panics and leaves no buffer exactly when chunk_size is 0; for
\* every chunk_size >= 1 it returns a buffer.  Without a buffer no call is
\* ever made.
C11_Construction ==
    /\ alive <=> size >= 1
    /\ ~alive => last.op = "new"

\* C11 happens: new was given chunk size 0.
C11_Witness == size = 0 /\ ~alive /\ Len(source) >= 1

\* C12: capacity() returns 2 * chunk_size and changes nothing, and no other
\* call changes what it returns: it is the two chunks' lengths together.
C12_Capacity ==
    [][/\ last'.op = "capacity" =>
              /\ last'.ret = Ok(2 * size)
              /\ last'.reads = 0
              /\ UNCHANGED fields
       /\ capacity' = capacity
       /\ capacity' = Len(left') + Len(right')]_vars

\* C12 happens: capacity() was called on a buffer of chunk size 2 with bytes
\* consumed and withdrawn.
C12_Witness ==
    /\ last.op = "capacity" /\ last.ret = Ok(4)
    /\ consumed >= 1 /\ withdrawn >= 1

\* C13: withdrawn never exceeds chunks.size.
C13_WithdrawnBound == withdrawn <= size

\* C13 happens: a take_back that passed both checks has failed in its loop
\* with a whole chunk withdrawn.
C13_Witness ==
    /\ last.op = "take_back" /\ last.ret.kind = "PermissionDenied"
    /\ last.back >= 1 /\ withdrawn = size

\* C14: a take_back(amount) with amount <= consumed and amount <=
\* chunks.size but withdrawn + amount > chunks.size returns PermissionDenied
\* with exactly chunks.size - withdrawn steps applied: consumed is that much
\* less and withdrawn is chunks.size.
C14_PartialRewind ==
    [][(last'.op = "take_back" /\ last'.arg <= consumed /\ last'.arg <= size
           /\ withdrawn + last'.arg > size) =>
          /\ last'.ret = Err("PermissionDenied")
          /\ last'.back = size - withdrawn
          /\ consumed' = consumed - (size - withdrawn)
          /\ withdrawn' = size]_vars

\* C14 happens: a take_back was refused after one step of two.
C14_Witness ==
    /\ last.op = "take_back" /\ last.ret.kind = "PermissionDenied"
    /\ last.arg = 2 /\ last.back = 1 /\ size = 2

\* C15: a take_byte that fails with UnexpectedEof changes no field, no
\* chunk and no position; and with the source exhausted (its reads return 0
\* bytes) a take_byte right after it fails with UnexpectedEof again.
C15_EofChangesNothing ==
    [][/\ (last'.op = "take_byte" /\ last'.ret.kind = "UnexpectedEof") =>
              /\ UNCHANGED <<consumed, withdrawn, loaded, left, right>>
              /\ position(consumed') = position(consumed)
       /\ (last.op = "take_byte" /\ last.ret.kind = "UnexpectedEof"
              /\ offset = Len(source)
              /\ last'.op = "take_byte" /\ last'.rdErr = "") =>
              last'.ret.kind = "UnexpectedEof"]_vars

\* C15 happens: take_byte has failed with UnexpectedEof at a chunk boundary,
\* where it reads the source, with all of a source of a chunk or more
\* consumed.
C15_Witness ==
    /\ last.op = "take_byte" /\ last.ret.kind = "UnexpectedEof"
    /\ last.reads = 1 /\ consumed = Len(source) /\ consumed >= size

\* C16: a take_byte (called directly or by take_char) issues at most one
\* source read, of at most chunks.size bytes, and only at position 0 or
\* chunks.size with withdrawn = 0; with withdrawn > 0 it issues none.
C16_OneReadAtBoundary ==
    [][last'.op \in {"take_byte", "take_char"} =>
          /\ last'.reads <= 1
          /\ offset' - offset <= size
          /\ offset' >= offset
          /\ last'.reads = 1 =>
                (withdrawn = 0 /\ position(consumed) \in {0, size})
          /\ withdrawn > 0 => (last'.reads = 0 /\ offset' = offset)
          /\ last'.reads = 0 => offset' = offset]_vars

\* C16 happens: a take_byte has re-read the first slot of a chunk without a
\* source read.
C16_Witness ==
    /\ last.op = "take_byte" /\ last.ret.kind = "Ok" /\ last.reads = 0
    /\ consumed >= 1 /\ position(consumed - 1) \in {0, size}

\* The byte stored in slot p of the two chunks.
Slot(p) == IF p < size THEN left[p + 1] ELSE right[(p % size) + 1]

\* The highest count consumed has had: consumed and withdrawn together.
High == consumed + withdrawn

\* C17: every stream offset i a permitted rewind can reach, from
\* max(0, h - chunks.size) up to h - 1 for h = consumed + withdrawn, is the
\* source's byte i and stored in slot i mod capacity.
C17_HistoryKept ==
    alive =>
        \A i \in 0..(High - 1) :
            i >= High - size =>
                /\ i < Len(source)
                /\ Slot(i % capacity) = source[i + 1]

\* C17 happens: the left chunk has been loaded a second time and a whole
\* chunk before the highest offset is withdrawn.
C17_Witness ==
    /\ alive /\ loaded > capacity /\ withdrawn = size /\ size >= 2

\* C18 as stated: right after new the position is capacity, consumed,
\* loaded and withdrawn are 0, the chunks hold zeros and the source is unread.
C18_InitialPositionIsCapacity ==
    (alive /\ last.op = "new") =>
        /\ position(consumed) = capacity
        /\ consumed = 0 /\ loaded = 0 /\ withdrawn = 0
        /\ left = [i \in 1..size |-> 0] /\ right = [i \in 1..size |-> 0]
        /\ offset = 0

\* C18 amended: right after new the position is 0, consumed, loaded and
\* withdrawn are 0, the chunks are chunk_size zeros each and the source is
\* unread.
C18_InitialState ==
    (alive /\ last.op = "new") =>
        /\ position(consumed) = 0
        /\ consumed = 0 /\ loaded = 0 /\ withdrawn = 0
        /\ left = [i \in 1..size |-> 0] /\ right = [i \in 1..size |-> 0]
        /\ offset = 0

\* C18 happens: a buffer of chunk size 2 over a source that has bytes, no
\* call made yet.
C18_Witness == alive /\ last.op = "new" /\ size = 2 /\ Len(source) >= 1

\* C19: a source read is issued only with consumed = loaded and nothing
\* withdrawn, and the bytes loaded ahead of the highest offset consumed are
\* at most chunks.size - 1.
C19_LazyRefill ==
    /\ [](alive => loaded - High <= size - 1)
    /\ [][last'.reads >= 1 => (consumed = loaded /\ withdrawn = 0)]_vars

\* C19 happens: a read has filled a chunk of two bytes and take_byte has
\* returned the first of them.
C19_Witness ==
    /\ last.op = "take_byte" /\ last.reads = 1 /\ last.ret.kind = "Ok"
    /\ loaded - High = size - 1 /\ size >= 2 /\ consumed > size

\* C20: consumed + withdrawn never exceeds loaded, loaded never decreases,
\* and a take_byte called with withdrawn > 0 never fails with UnexpectedEof.
C20_RewoundIsLoaded ==
    /\ [](High <= loaded)
    /\ [][/\ loaded' >= loaded
          /\ (last'.op \in {"take_byte", "take_char"} /\ withdrawn > 0) =>
                last'.ret.kind # "UnexpectedEof"]_vars

\* C20 happens: after an UnexpectedEof and a take_back, a take_byte has
\* returned a byte with everything loaded consumed or withdrawn.
C20_Witness ==
    /\ last.op = "take_byte" /\ last.ret.kind = "Ok"
    /\ mon.kind = "eof" /\ withdrawn >= 1 /\ High = loaded

====
